---- MODULE Spec2Model ----
(***************************************************************************)
(* Flag submission and flag check of ractf-core (src/challenge/views.py):  *)
(* FlagSubmitView.post and FlagCheckView.post as concurrent requests over  *)
(* a database of solves (the ledger), team points, challenge first bloods  *)
(* and row locks (SELECT ... FOR UPDATE, held to the end of the            *)
(* transaction).                                                           *)
(***************************************************************************)
EXTENDS Integers, Sequences, FiniteSets, TLC

\* ---------------------------------------------------------------- bounds
\* Solve rows the ledger may hold, counting one per request in flight.
MaxSolves == 3
\* Largest attempt_limit a challenge is configured with.
MaxLimit == 2
\* Requests of one race: the bound of MaxSolves, as used where the fair
\* behaviours are checked.
MaxRace == 2

\* ------------------------------------------------------------- the world
None == "none"

\* Request slots: the requests that may be in flight at the same time.
Reqs == {"r1", "r2"}

Teams == {"t1", "t2"}
Users == {"u1", "u2", "u3"}

\* request.user.team: u1 and u2 are members of t1, u3 of t2.
TeamOf(u) == IF u = "u3" THEN "t2" ELSE "t1"

ChallengeIds == {1, 2}

\* The challenge rows.  Challenge 1 is open to everybody, challenge 2 is
\* unlocked by solving challenge 1.
Challenges ==
    [c \in ChallengeIds |->
        IF c = 1
        THEN [flag |-> "f1", score |-> 100, auto_unlock |-> TRUE,
              unlocked_by |-> {}, released |-> TRUE]
        ELSE [flag |-> "f2", score |-> 100, auto_unlock |-> FALSE,
              unlocked_by |-> {1}, released |-> TRUE]]

\* request.data: <<challenge, flag>>.  0 is an absent challenge id, 9 the id
\* of no row, "" an absent flag; every flag text is right for one challenge
\* and wrong for the other.
RequestData ==
    (ChallengeIds \X {"f1", "f2"}) \cup {<<9, "f1">>, <<0, "f1">>, <<1, "">>}

LockIds == ({"team"} \X Teams) \cup ({"user"} \X Users) \cup ({"challenge"} \X ChallengeIds)

VARIABLES
    ledger,         \* the committed Solve rows, in commit order
    points,         \* team.points, committed
    first_blood,    \* challenge.first_blood, committed
    attempt_limit,  \* challenge.challenge_metadata["attempt_limit"], 0 = absent
    flag_type,      \* challenge.flag_type
    points_type,    \* challenge.points_type
    locks,          \* row lock -> the request holding it
    request,        \* per slot: the view, request.user, request.data
    pc,             \* per slot: position in the handler
    outcome,        \* per slot: the response message
    events,         \* per slot: the signals sent by this request, in order
    held,           \* per slot: the row locks taken by this request, in order
    txn,            \* per slot: the uncommitted writes of the transaction
    catalog,        \* the challenge rows the listing reads, by id
    listing         \* the challenge listing of CategoryViewset, as it is built

vars == <<ledger, points, first_blood, attempt_limit, flag_type, points_type,
          locks, request, pc, outcome, events, held, txn, catalog, listing>>

\* The columns of the challenge rows that no flag request writes.
challengeVars == <<attempt_limit, flag_type, points_type>>

\* The state of the challenge listing, which no flag request touches.
listVars == <<catalog, listing>>

dbVars == <<ledger, points, first_blood, challengeVars, listVars>>

NoRequest == [view |-> None, user |-> None, flag |-> "", challenge |-> 0]
NoWrites == [solves |-> <<>>, points |-> 0, first_blood |-> None]
NoListing == [pc |-> "idle", user |-> None, challenges |-> {}]

\* ------------------------------------------------------- ledger queries
\* solve_set.filter(team=team, correct=True).exists()
HasCorrectSolve(L, c, t) ==
    \E i \in 1..Len(L) : L[i].challenge = c /\ L[i].team = t /\ L[i].correct

\* solve_set.filter(team=team).count()
AttemptCount(L, c, t) ==
    Cardinality({i \in 1..Len(L) : L[i].challenge = c /\ L[i].team = t})

\* Solve.objects.filter(team=team, correct=True).values_list('challenge')
solved_challenges(L, t) == {L[i].challenge : i \in {j \in 1..Len(L) : L[j].team = t /\ L[j].correct}}

\* is_unlocked for a challenge row and the set of challenges the team of the
\* user has solved.
Unlocked(row, solved) ==
    \/ row.auto_unlock
    \/ /\ \A p \in row.unlocked_by : p \in solved
       /\ row.released

\* challenge.is_unlocked(user)
is_unlocked(L, c, u) == Unlocked(Challenges[c], solved_challenges(L, TeamOf(u)))

SubmitGateSolvedOnly(L, c, u) == HasCorrectSolve(L, c, TeamOf(u))

SubmitGateUnlockOnly(L, c, u) == ~is_unlocked(L, c, u)

\* The duplicate-solve and unlock gate of FlagSubmitView.post.
SubmitGateClosed(L, c, u) ==
    HasCorrectSolve(L, c, TeamOf(u)) \/ ~is_unlocked(L, c, u)

AttemptLimitAtLimit(L, c, t, limit) ==
    limit # 0 /\ AttemptCount(L, c, t) >= limit

AttemptLimitAnyTeam(L, c, t, limit) ==
    limit # 0 /\ Cardinality({i \in 1..Len(L) : L[i].challenge = c}) > limit

AttemptLimitNever(L, c, t, limit) == FALSE

AttemptLimitZeroIsLimit(L, c, t, limit) == AttemptCount(L, c, t) > limit

\* The attempt-limit check of FlagSubmitView.post.
AttemptLimitReached(L, c, t, limit) ==
    limit # 0 /\ AttemptCount(L, c, t) > limit

\* plugins.plugins: the registered plugin names, by kind.
plugins == [flag |-> {"plain"}, points |-> {"basic"}]

\* The names a challenge row may carry: the registered ones and one that is
\* not registered.
FlagTypes == plugins.flag \cup {"unknown"}
PointsTypes == plugins.points \cup {"unknown"}

\* plugin.check(flag, user=user, team=team) of the static flag plugin.
plugin_check(c, f) == f = Challenges[c].flag

\* ------------------------------------------------------------- signals
flag_submit == [signal |-> "flag_submit", reason |-> None]
flag_reject(reason) == [signal |-> "flag_reject", reason |-> reason]
flag_score == [signal |-> "flag_score", reason |-> None]

\* ---------------------------------------------------- points plugin
Solve(c, u, f, correct, pts) ==
    [challenge |-> c, team |-> TeamOf(u), user |-> u, flag |-> f,
     correct |-> correct, points |-> pts]

\* points_plugin.score(user, team, flag, solve_set)
score(c, u, f) ==
    [solves |-> <<Solve(c, u, f, TRUE, Challenges[c].score)>>,
     points |-> Challenges[c].score,
     first_blood |-> None]

\* points_plugin.register_incorrect_attempt(user, team, flag, solve_set)
register_incorrect_attempt(c, u, f) ==
    [solves |-> <<Solve(c, u, f, FALSE, 0)>>, points |-> 0, first_blood |-> None]

\* -------------------------------------------------------------- Init
Init ==
    /\ ledger = <<>>
    /\ points = [t \in Teams |-> 0]
    /\ first_blood = [c \in ChallengeIds |-> None]
    /\ \E limit \in 0..MaxLimit : attempt_limit = [c \in ChallengeIds |-> limit]
    /\ flag_type = [c \in ChallengeIds |-> "plain"]
    /\ points_type = [c \in ChallengeIds |-> "basic"]
    /\ locks = [l \in LockIds |-> None]
    /\ request = [r \in Reqs |-> NoRequest]
    /\ pc = [r \in Reqs |-> "idle"]
    /\ outcome = [r \in Reqs |-> None]
    /\ events = [r \in Reqs |-> <<>>]
    /\ held = [r \in Reqs |-> <<>>]
    /\ txn = [r \in Reqs |-> NoWrites]
    /\ catalog = Challenges
    /\ listing = NoListing

\* ------------------------------------------------------------ helpers
InFlight == {r \in Reqs : pc[r] # "idle"}

LockFreeNoWait(l) == TRUE

\* No other transaction holds row l.
LockFree(l) == locks[l] = None

TeamRowAfterChallenge(req) ==
    IF req.challenge \in ChallengeIds THEN <<"challenge", req.challenge>>
    ELSE <<"team", TeamOf(req.user)>>

\* The first row FlagSubmitView.post locks: the team of the user.
TeamRow(req) == <<"team", TeamOf(req.user)>>

\* SELECT ... FOR UPDATE of row l: waits until no other transaction holds it.
Acquire(r, l) ==
    /\ LockFree(l)
    /\ locks' = [locks EXCEPT ![l] = r]
    /\ held' = [held EXCEPT ![r] = Append(@, l[1])]

\* A new request arrives in a free slot.
Receive(r, view, u, c, f) ==
    /\ pc[r] = "idle"
    /\ Len(ledger) + Cardinality(InFlight) < MaxSolves
    /\ request' = [request EXCEPT ![r] =
                      [view |-> view, user |-> u, flag |-> f, challenge |-> c]]
    /\ UNCHANGED <<dbVars, locks, events, held, txn>>

Respond(r, p, m) ==
    /\ pc' = [pc EXCEPT ![r] = p]
    /\ outcome' = [outcome EXCEPT ![r] = m]

\* ------------------------------------------------- FlagSubmitView.post
\* The enable_flag_submission / end_time check, then transaction.atomic().
SubmitReceive(r) ==
    \/ /\ Receive(r, "FlagSubmitView", None, 0, "")
       /\ Respond(r, "respond", "flag_submission_disabled")
    \/ \E u \in Users, d \in RequestData :
          /\ Receive(r, "FlagSubmitView", u, d[1], d[2])
          /\ Respond(r, "lock_team", None)

\* Team.objects.select_for_update().get(id=request.user.team.id)
SubmitLockTeam(r) ==
    /\ pc[r] = "lock_team"
    /\ Acquire(r, TeamRow(request[r]))
    /\ Respond(r, "lock_user", None)
    /\ UNCHANGED <<dbVars, request, events, txn>>

\* get_user_model().objects.select_for_update().get(id=request.user.id),
\* then the flag / challenge presence check.
SubmitLockUser(r) ==
    /\ pc[r] = "lock_user"
    /\ Acquire(r, <<"user", request[r].user>>)
    /\ IF request[r].flag = "" \/ request[r].challenge = 0
       THEN Respond(r, "commit", "bad_request")
       ELSE Respond(r, "lock_challenge", None)
    /\ UNCHANGED <<dbVars, request, events, txn>>

SubmitOutcomeMatchFirst(L, c, u, f, limit) ==
    IF SubmitGateClosed(L, c, u) THEN "already_solved_challenge"
    ELSE IF plugin_check(c, f) THEN "correct_flag"
    ELSE IF AttemptLimitReached(L, c, TeamOf(u), limit) THEN "attempt_limit_reached"
    ELSE "incorrect_flag"

\* The response of FlagSubmitView.post once the three rows are locked.
SubmitOutcome(L, c, u, f, limit) ==
    IF SubmitGateClosed(L, c, u) THEN "already_solved_challenge"
    ELSE IF AttemptLimitReached(L, c, TeamOf(u), limit) THEN "attempt_limit_reached"
    ELSE IF ~plugin_check(c, f) THEN "incorrect_flag"
    ELSE "correct_flag"

SubmitSignalsLimitSubmits(m) ==
    CASE m = "attempt_limit_reached" ->
            <<flag_submit, flag_reject("attempt_limit_reached")>>
      [] m = "incorrect_flag" -> <<flag_submit, flag_reject("incorrect_flag")>>
      [] m = "correct_flag" -> <<flag_submit, flag_score>>
      [] OTHER -> <<>>

\* The signals FlagSubmitView.post sends on the way to that response.
SubmitSignals(m) ==
    CASE m = "attempt_limit_reached" -> <<flag_reject("attempt_limit_reached")>>
      [] m = "incorrect_flag" -> <<flag_submit, flag_reject("incorrect_flag")>>
      [] m = "correct_flag" -> <<flag_submit, flag_score>>
      [] OTHER -> <<>>

FirstBloodOverwrite(fb, u) == u

FirstBloodNever(fb, u) == None

\* challenge.first_blood as written by a scoring submission.
FirstBloodWrite(fb, u) == IF fb = None THEN u ELSE None

\* The writes FlagSubmitView.post makes inside its transaction.
SubmitWrites(m, c, u, f, fb) ==
    CASE m = "incorrect_flag" -> register_incorrect_attempt(c, u, f)
      [] m = "correct_flag" ->
            [score(c, u, f) EXCEPT !.first_blood = FirstBloodWrite(fb, u)]
      [] OTHER -> NoWrites

\* plugins.plugins['flag'][challenge.flag_type] and
\* plugins.plugins['points'][challenge.points_type] of FlagSubmitView.post: a
\* dict lookup, KeyError for a name that is not registered.  Both lookups
\* come after the gate and the attempt-limit check.
SubmitKeyError(m, c) ==
    /\ m \in {"incorrect_flag", "correct_flag"}
    /\ flag_type[c] \notin plugins.flag \/ points_type[c] \notin plugins.points

\* get_object_or_404(Challenge.objects.select_for_update(), id=challenge_id):
\* Http404 when there is no such row; else, once the row is locked, the rest
\* of the handler up to its return, or up to the KeyError of a plugin lookup,
\* raised after flag_submit was sent and before anything is written.
SubmitLockChallenge(r) ==
    /\ pc[r] = "lock_challenge"
    /\ request[r].view = "FlagSubmitView"
    /\ IF request[r].challenge \notin ChallengeIds
       THEN /\ Respond(r, "rollback", "not_found")
            /\ UNCHANGED <<locks, held, events, txn>>
       ELSE LET c == request[r].challenge
                u == request[r].user
                f == request[r].flag
                m == SubmitOutcome(ledger, c, u, f, attempt_limit[c])
            IN /\ Acquire(r, <<"challenge", c>>)
               /\ IF SubmitKeyError(m, c)
                  THEN /\ Respond(r, "rollback", "key_error")
                       /\ events' = [events EXCEPT ![r] = <<flag_submit>>]
                       /\ UNCHANGED txn
                  ELSE /\ Respond(r, "commit", m)
                       /\ events' = [events EXCEPT ![r] = SubmitSignals(m)]
                       /\ txn' = [txn EXCEPT ![r] =
                                     SubmitWrites(m, c, u, f, first_blood[c])]
    /\ UNCHANGED <<dbVars, request>>

\* The writes FlagSubmitView.post has made when it sends signal sig: score
\* and the saves come before flag_score, register_incorrect_attempt comes
\* after flag_reject.
SubmitWritesBefore(sig, m, c, u, f, fb) ==
    IF sig.signal = "flag_score" THEN SubmitWrites(m, c, u, f, fb) ELSE NoWrites

\* Signal.send runs the receivers inside the handler: a receiver that raises
\* at the k-th signal ends the handler there, inside transaction.atomic().
SubmitListenerFails(r) ==
    /\ pc[r] = "lock_challenge"
    /\ request[r].view = "FlagSubmitView"
    /\ request[r].challenge \in ChallengeIds
    /\ LET c == request[r].challenge
           u == request[r].user
           f == request[r].flag
           m == SubmitOutcome(ledger, c, u, f, attempt_limit[c])
           sent == SubmitSignals(m)
       IN \E k \in 1..(IF SubmitKeyError(m, c) THEN 1 ELSE Len(sent)) :
             /\ Acquire(r, <<"challenge", c>>)
             /\ Respond(r, "rollback", "server_error")
             /\ events' = [events EXCEPT ![r] = SubSeq(sent, 1, k)]
             /\ txn' = [txn EXCEPT ![r] =
                           SubmitWritesBefore(sent[k], m, c, u, f, first_blood[c])]
    /\ UNCHANGED <<dbVars, request>>

\* -------------------------------------------------- FlagCheckView.post
\* The enable_flag_submission / end_time check and the presence check; the
\* team and the user are read without a lock.
CheckReceive(r) ==
    \/ /\ Receive(r, "FlagCheckView", None, 0, "")
       /\ Respond(r, "respond", "flag_submission_disabled")
    \/ \E u \in Users, d \in RequestData :
          /\ Receive(r, "FlagCheckView", u, d[1], d[2])
          /\ IF d[2] = "" \/ d[1] = 0
             THEN Respond(r, "respond", "bad_request")
             ELSE Respond(r, "lock_challenge", None)

CheckWritesRegister(m, c, u, f) ==
    IF m = "incorrect_flag" THEN register_incorrect_attempt(c, u, f) ELSE NoWrites

\* The writes of FlagCheckView.post: it calls neither score nor
\* register_incorrect_attempt and saves nothing.
CheckWrites(m, c, u, f) == NoWrites

\* The response of FlagCheckView.post once it has the challenge.
CheckOutcome(L, c, u, f) ==
    IF ~HasCorrectSolve(L, c, TeamOf(u)) THEN "havent_solved_challenge"
    ELSE IF ~plugin_check(c, f) THEN "incorrect_flag"
    ELSE "correct_flag"

\* plugins.plugins['flag'][challenge.flag_type] of FlagCheckView.post, reached
\* once the team is known to have solved the challenge.
CheckKeyError(m, c) ==
    /\ m \in {"incorrect_flag", "correct_flag"}
    /\ flag_type[c] \notin plugins.flag

\* get_object_or_404(Challenge.objects.select_for_update(), id=challenge_id)
\* and the rest of the handler; the row stays locked until the request's
\* transaction ends.
CheckLockChallenge(r) ==
    /\ pc[r] = "lock_challenge"
    /\ request[r].view = "FlagCheckView"
    /\ IF request[r].challenge \notin ChallengeIds
       THEN /\ Respond(r, "rollback", "not_found")
            /\ UNCHANGED <<locks, held>>
            /\ UNCHANGED txn
       ELSE LET c == request[r].challenge
                u == request[r].user
                f == request[r].flag
                m == CheckOutcome(ledger, c, u, f)
            IN /\ Acquire(r, <<"challenge", c>>)
               /\ IF CheckKeyError(m, c)
                  THEN /\ Respond(r, "rollback", "key_error")
                       /\ UNCHANGED txn
                  ELSE /\ Respond(r, "commit", m)
                       /\ txn' = [txn EXCEPT ![r] = CheckWrites(m, c, u, f)]
    /\ UNCHANGED <<dbVars, request, events>>

\* ------------------------------------------- the end of a request
Release(r) ==
    locks' = [l \in LockIds |-> IF locks[l] = r THEN None ELSE locks[l]]

\* The slot is free again once the response is out.
Clear(r) ==
    /\ pc' = [pc EXCEPT ![r] = "idle"]
    /\ request' = [request EXCEPT ![r] = NoRequest]
    /\ outcome' = [outcome EXCEPT ![r] = None]
    /\ events' = [events EXCEPT ![r] = <<>>]
    /\ held' = [held EXCEPT ![r] = <<>>]
    /\ txn' = [txn EXCEPT ![r] = NoWrites]

\* The transaction commits: its writes become visible, its locks are released.
Commit(r) ==
    /\ pc[r] = "commit"
    /\ ledger' = ledger \o txn[r].solves
    /\ points' = [points EXCEPT ![TeamOf(request[r].user)] = @ + txn[r].points]
    /\ first_blood' =
          IF txn[r].first_blood = None THEN first_blood
          ELSE [first_blood EXCEPT ![request[r].challenge] = txn[r].first_blood]
    /\ Release(r)
    /\ Clear(r)
    /\ UNCHANGED <<challengeVars, listVars>>

RollbackKeepsSolves(r) ==
    /\ pc[r] = "rollback"
    /\ ledger' = ledger \o txn[r].solves
    /\ Release(r)
    /\ Clear(r)
    /\ UNCHANGED <<points, first_blood, challengeVars, listVars>>

\* An exception leaves the transaction: its writes are dropped, its locks
\* are released.
Rollback(r) ==
    /\ pc[r] = "rollback"
    /\ Release(r)
    /\ Clear(r)
    /\ UNCHANGED dbVars

\* A response given before any transaction was opened.
Return(r) ==
    /\ pc[r] = "respond"
    /\ Clear(r)
    /\ UNCHANGED <<dbVars, locks>>

\* ---------------------------------------------------------------- Next
Next ==
    \E r \in Reqs :
        \/ SubmitReceive(r)
        \/ SubmitLockTeam(r)
        \/ SubmitLockUser(r)
        \/ SubmitLockChallenge(r)
        \/ SubmitListenerFails(r)
        \/ CheckReceive(r)
        \/ CheckLockChallenge(r)
        \/ Commit(r)
        \/ Rollback(r)
        \/ Return(r)

Spec == Init /\ [][Next]_vars

\* The steps of request r after its arrival.
Proceed(r) ==
    \/ SubmitLockTeam(r)
    \/ SubmitLockUser(r)
    \/ SubmitLockChallenge(r)
    \/ SubmitListenerFails(r)
    \/ CheckLockChallenge(r)
    \/ Commit(r)
    \/ Rollback(r)
    \/ Return(r)

\* Row locks are granted to waiters fairly and a handler that can run does
\* run; nothing obliges a new request to arrive.
Fairness == \A r \in Reqs : SF_vars(Proceed(r))

\* The races of at most MaxRace requests, on challenges of attempt limit 1,
\* under fair scheduling.
RaceBound == Len(ledger) + Cardinality(InFlight) <= MaxRace

RaceInit == Init /\ attempt_limit = [c \in ChallengeIds |-> 1]

RaceNext == Next /\ RaceBound'

FairSpec == RaceInit /\ [][RaceNext]_vars /\ Fairness

\* ------------------------------------------- challenges being edited
\* ChallengeViewset, the admin's update of a challenge row: the flag_type
\* and points_type columns are free text, written whether or not a plugin of
\* that name is registered.  The UPDATE waits for the row lock.
ChallengeUpdate(c) ==
    /\ LockFree(<<"challenge", c>>)
    /\ \E ft \in FlagTypes, pt \in PointsTypes :
          /\ flag_type' = [flag_type EXCEPT ![c] = ft]
          /\ points_type' = [points_type EXCEPT ![c] = pt]
    /\ UNCHANGED <<ledger, points, first_blood, attempt_limit, locks, request,
                   pc, outcome, events, held, txn, listVars>>

ConfigNext ==
    \/ RaceNext
    \/ \E c \in ChallengeIds : ChallengeUpdate(c) /\ RaceBound'

\* The races of at most MaxRace requests while an admin edits the challenges.
ConfigSpec == RaceInit /\ [][ConfigNext]_vars

\* ------------------------------------------------ the challenge listing
\* The challenges of the listing beside those of ChallengeIds, and the
\* challenges they may have as prerequisites.
ListedIds == {3, 4}

\* The rows a listed challenge may have.
ChallengeRows ==
    [flag : {"f"}, score : {100}, auto_unlock : BOOLEAN,
     unlocked_by : SUBSET ChallengeIds, released : BOOLEAN]

\* The ledger of a team whose user u solved the challenges 1..n, in order.
SolvedLedger(u, n) ==
    [i \in 1..n |-> Solve(i, u, Challenges[i].flag, TRUE, Challenges[i].score)]

\* The points of a team that solved the challenges 1..n.
RECURSIVE ScoreOf(_)
ScoreOf(n) == IF n = 0 THEN 0 ELSE Challenges[n].score + ScoreOf(n - 1)

\* The database when a listing is asked for: user u1 has solved none, the
\* first or both of the challenges of ChallengeIds, and the other challenges
\* are as the admin made them.
UnlockInit ==
    /\ \E n \in 0..Cardinality(ChallengeIds) :
          /\ ledger = SolvedLedger("u1", n)
          /\ points = [t \in Teams |-> IF t = "t1" THEN ScoreOf(n) ELSE 0]
          /\ first_blood = [c \in ChallengeIds |-> IF c <= n THEN "u1" ELSE None]
    /\ attempt_limit = [c \in ChallengeIds |-> 0]
    /\ flag_type = [c \in ChallengeIds |-> "plain"]
    /\ points_type = [c \in ChallengeIds |-> "basic"]
    /\ locks = [l \in LockIds |-> None]
    /\ request = [r \in Reqs |-> NoRequest]
    /\ pc = [r \in Reqs |-> "idle"]
    /\ outcome = [r \in Reqs |-> None]
    /\ events = [r \in Reqs |-> <<>>]
    /\ held = [r \in Reqs |-> <<>>]
    /\ txn = [r \in Reqs |-> NoWrites]
    /\ \E more \in [ListedIds -> ChallengeRows] :
          catalog = [c \in ChallengeIds \cup ListedIds |->
                        IF c \in ChallengeIds THEN Challenges[c] ELSE more[c]]
    /\ listing = NoListing

\* The rows of the join of a challenge with its unlocked_by relation: one for
\* every prerequisite, or one with no prerequisite (NULL, written 0) when it
\* has none.
JoinedPrerequisites(row) ==
    IF row.unlocked_by = {} THEN {0} ELSE row.unlocked_by

\* The `unlocked` annotation of get_queryset for one joined row: a Case on
\* auto_unlock, then on the joined prerequisite being among the solved
\* challenges of the team, else False.
AnnotateUnlocked(row, p, solved) ==
    IF row.auto_unlock THEN TRUE
    ELSE IF p # 0 /\ p \in solved THEN TRUE
    ELSE FALSE

\* CategoryViewset.get_queryset for a user with a team: the annotated
\* challenges, one row for every value the annotation takes on the joined rows
\* of a challenge.
get_queryset(u) ==
    LET solved == solved_challenges(ledger, TeamOf(u))
    IN UNION {{[id |-> c, unlocked |-> AnnotateUnlocked(catalog[c], p, solved)] :
                  p \in JoinedPrerequisites(catalog[c])} : c \in DOMAIN catalog}

\* The serialized queryset, before list() goes over it.
CategoryQuery ==
    /\ listing.pc = "idle"
    /\ \E u \in Users :
          listing' = [pc |-> "queried", user |-> u, challenges |-> get_queryset(u)]
    /\ UNCHANGED <<ledger, points, first_blood, challengeVars, locks, request,
                   pc, outcome, events, held, txn, catalog>>

\* CategoryViewset.list: drop the rows that are not unlocked of every
\* challenge that also has an unlocked row.
CategoryList ==
    /\ listing.pc = "queried"
    /\ LET unlocked == {row.id : row \in {x \in listing.challenges : x.unlocked}}
           new_challenges ==
               {row \in listing.challenges : ~(~row.unlocked /\ row.id \in unlocked)}
       IN listing' = [listing EXCEPT !.pc = "listed", !.challenges = new_challenges]
    /\ UNCHANGED <<ledger, points, first_blood, challengeVars, locks, request,
                   pc, outcome, events, held, txn, catalog>>

UnlockNext == CategoryQuery \/ CategoryList

UnlockSpec == UnlockInit /\ [][UnlockNext]_vars

\* =============================================================== claims
\* The steps of a request, as seen in a pair of states: the step that takes
\* the challenge row and runs the handler to its return.
Decides(r, view) ==
    /\ pc[r] = "lock_challenge"
    /\ pc'[r] = "commit"
    /\ request[r].view = view

\* The commit of a request that carried a flag and named a challenge.
Commits(r, view) ==
    /\ pc[r] = "commit"
    /\ pc'[r] = "idle"
    /\ request[r].view = view
    /\ request[r].flag # ""
    /\ request[r].challenge \in ChallengeIds

RightFlag(r) ==
    /\ request[r].challenge \in ChallengeIds
    /\ plugin_check(request[r].challenge, request[r].flag)

\* The rows of the ledger for (challenge, team), in commit order.
SolvesOf(L, c, t) == SelectSeq(L, LAMBDA s : s.challenge = c /\ s.team = t)

CorrectCount(L, c, t) ==
    Cardinality({i \in 1..Len(L) : L[i].challenge = c /\ L[i].team = t /\ L[i].correct})

RECURSIVE AwardSum(_, _, _)
AwardSum(L, t, cs) ==
    IF cs = {} THEN 0
    ELSE LET c == CHOOSE x \in cs : TRUE
         IN (IF HasCorrectSolve(L, c, t) THEN Challenges[c].score ELSE 0)
            + AwardSum(L, t, cs \ {c})

\* C1: whatever the interleaving of submissions, the ledger holds at most one
\* correct row for every (challenge, team), and the points of a team are one
\* award for each challenge it has solved, never two for the same challenge.
C1_OneCorrectSolvePerTeam ==
    \A t \in Teams :
        /\ \A c \in ChallengeIds : CorrectCount(ledger, c, t) <= 1
        /\ points[t] = AwardSum(ledger, t, ChallengeIds)

\* Two users of one team race with the right flag of the same challenge: one
\* has scored and is about to commit, the other waits for the team row.
C1_Witness ==
    \E r1, r2 \in Reqs :
        /\ request[r1].view = "FlagSubmitView" /\ request[r2].view = "FlagSubmitView"
        /\ request[r1].user # request[r2].user
        /\ TeamOf(request[r1].user) = TeamOf(request[r2].user)
        /\ request[r1].challenge = request[r2].challenge
        /\ RightFlag(r1) /\ RightFlag(r2)
        /\ pc[r1] = "commit" /\ outcome[r1] = "correct_flag"
        /\ pc[r2] = "lock_team"

\* The user of the first correct row committed for challenge c, if any.
FirstCorrectUser(L, c) ==
    LET S == {i \in 1..Len(L) : L[i].challenge = c /\ L[i].correct}
    IN IF S = {} THEN None
       ELSE L[CHOOSE i \in S : \A j \in S : i <= j].user

FirstBloodIsFirstCorrect ==
    \A c \in ChallengeIds : first_blood[c] = FirstCorrectUser(ledger, c)

FirstBloodSetOnce ==
    \A c \in ChallengeIds : first_blood[c] # None => first_blood'[c] = first_blood[c]

\* C2: the first blood of a challenge is unset while no correct submission
\* for it has committed, is the user of the first correct submission that
\* committed, and once set no step of any request changes it.
C2_FirstBlood == [](FirstBloodIsFirstCorrect) /\ [][FirstBloodSetOnce]_vars

\* Users of two teams have both solved a challenge; its first blood is the
\* earlier one.
C2_Witness ==
    \E c \in ChallengeIds :
        \E i, j \in 1..Len(ledger) :
            /\ i < j
            /\ ledger[i].challenge = c /\ ledger[i].correct
            /\ ledger[j].challenge = c /\ ledger[j].correct
            /\ ledger[i].team # ledger[j].team
            /\ first_blood[c] = ledger[i].user

\* C3: a submission that reaches the gate for a challenge that is not
\* unlocked for its user is answered already_solved_challenge, whatever its
\* flag: it sends no signal, has nothing to write, and its commit leaves the
\* ledger, the points and the first bloods as they were.
C3_LockedStep ==
    \A r \in Reqs :
        LET c == request[r].challenge
            u == request[r].user
        IN /\ (Decides(r, "FlagSubmitView") /\ ~is_unlocked(ledger, c, u))
                => /\ outcome'[r] = "already_solved_challenge"
                   /\ events'[r] = <<>>
                   /\ txn'[r] = NoWrites
                   /\ UNCHANGED dbVars
           /\ (Commits(r, "FlagSubmitView") /\ ~is_unlocked(ledger, c, u))
                => /\ outcome[r] = "already_solved_challenge"
                   /\ events[r] = <<>>
                   /\ UNCHANGED dbVars

C3_LockedChallengeRejected == [][C3_LockedStep]_vars

\* The right flag of challenge 2 was submitted by a user whose team has not
\* solved challenge 1, and was rejected.
C3_Witness ==
    \E r \in Reqs :
        /\ pc[r] = "commit"
        /\ request[r].view = "FlagSubmitView"
        /\ RightFlag(r)
        /\ ~is_unlocked(ledger, request[r].challenge, request[r].user)
        /\ outcome[r] = "already_solved_challenge"

\* C4: once a correct row for (challenge, team) is committed, every further
\* submission of the team for the challenge is answered
\* already_solved_challenge and leaves the points and the ledger unchanged.
C4_RetryStep ==
    \A r \in Reqs :
        LET c == request[r].challenge
            t == TeamOf(request[r].user)
        IN /\ (Decides(r, "FlagSubmitView") /\ HasCorrectSolve(ledger, c, t))
                => /\ outcome'[r] = "already_solved_challenge"
                   /\ txn'[r] = NoWrites
                   /\ UNCHANGED dbVars
           /\ (Commits(r, "FlagSubmitView") /\ HasCorrectSolve(ledger, c, t))
                => /\ outcome[r] = "already_solved_challenge"
                   /\ ledger' = ledger
                   /\ points' = points

C4_NoDoubleAward == [][C4_RetryStep]_vars

\* The right flag is submitted again by a team that has solved the challenge.
C4_Witness ==
    \E r \in Reqs :
        /\ pc[r] = "commit"
        /\ request[r].view = "FlagSubmitView"
        /\ RightFlag(r)
        /\ HasCorrectSolve(ledger, request[r].challenge, TeamOf(request[r].user))
        /\ points[TeamOf(request[r].user)] > 0
        /\ outcome[r] = "already_solved_challenge"

\* C5: on an unlocked challenge with attempt limit L >= 1, a submission of a
\* team without a correct solve is answered attempt_limit_reached exactly
\* when the team has more than L rows for the challenge: with L rows it is
\* matched and its row becomes the (L+1)th, with L+1 rows it is blocked.
C5_LimitStep ==
    \A r \in Reqs :
        LET c == request[r].challenge
            u == request[r].user
            t == TeamOf(u)
            n == AttemptCount(ledger, c, t)
        IN /\ ( /\ Decides(r, "FlagSubmitView")
                /\ attempt_limit[c] >= 1
                /\ ~SubmitGateClosed(ledger, c, u) )
                => /\ outcome'[r] = "attempt_limit_reached" <=> n > attempt_limit[c]
                   /\ n = attempt_limit[c] =>
                         /\ outcome'[r] \in {"incorrect_flag", "correct_flag"}
                         /\ Len(txn'[r].solves) = 1
                   /\ n = attempt_limit[c] + 1 =>
                         /\ outcome'[r] = "attempt_limit_reached"
                         /\ txn'[r] = NoWrites
           /\ ( /\ Commits(r, "FlagSubmitView")
                /\ attempt_limit[c] >= 1
                /\ outcome[r] \in {"incorrect_flag", "correct_flag"}
                /\ n = attempt_limit[c] )
                => AttemptCount(ledger', c, t) = attempt_limit[c] + 1

C5_AttemptLimitBoundary == [][C5_LimitStep]_vars

\* A team with L+1 rows on a challenge of limit L is blocked.
C5_Witness ==
    \E r \in Reqs :
        /\ pc[r] = "commit"
        /\ request[r].view = "FlagSubmitView"
        /\ request[r].challenge \in ChallengeIds
        /\ attempt_limit[request[r].challenge] >= 1
        /\ AttemptCount(ledger, request[r].challenge, TeamOf(request[r].user))
              = attempt_limit[request[r].challenge] + 1
        /\ outcome[r] = "attempt_limit_reached"

\* A submission of a wrong flag has run to its return on a challenge of
\* attempt limit 2 and score 100, for a team whose n earlier submissions for
\* the challenge were all wrong and are all the rows the team has.
WrongAfterWrongs(r, n) ==
    LET c == request[r].challenge
        t == TeamOf(request[r].user)
    IN /\ pc[r] = "commit"
       /\ request[r].view = "FlagSubmitView"
       /\ request[r].flag # ""
       /\ c \in ChallengeIds
       /\ attempt_limit[c] = 2
       /\ Challenges[c].score = 100
       /\ is_unlocked(ledger, c, request[r].user)
       /\ ~plugin_check(c, request[r].flag)
       /\ AttemptCount(ledger, c, t) = n
       /\ Len(SelectSeq(ledger, LAMBDA s : s.team = t)) = n
       /\ ~HasCorrectSolve(ledger, c, t)

\* C6 as stated: with attempt_limit 2, the third wrong submission of a team
\* is answered attempt_limit_reached and the team has zero points.
C6_ThirdWrongBlocked ==
    \A r \in Reqs :
        WrongAfterWrongs(r, 2)
            => /\ outcome[r] = "attempt_limit_reached"
               /\ points[TeamOf(request[r].user)] = 0
               /\ txn[r].points = 0

\* C6, amended: with attempt_limit 2, the third wrong submission of a team is
\* still matched: it is answered incorrect_flag and recorded as a third
\* incorrect row; only a submission after three rows is answered
\* attempt_limit_reached.  No wrong submission gives the team points.
C6_ThirdWrongMatched ==
    \A r \in Reqs :
        LET t == TeamOf(request[r].user)
        IN /\ \A n \in 0..2 :
                WrongAfterWrongs(r, n)
                    => /\ outcome[r] = "incorrect_flag"
                       /\ Len(txn[r].solves) = 1
                       /\ ~txn[r].solves[1].correct
                       /\ txn[r].points = 0
                       /\ points[t] = 0
           /\ WrongAfterWrongs(r, 3)
                => /\ outcome[r] = "attempt_limit_reached"
                   /\ txn[r] = NoWrites
                   /\ points[t] = 0

\* The third wrong submission of a team with no points has been matched.
C6_Witness ==
    \E r \in Reqs :
        /\ WrongAfterWrongs(r, 2)
        /\ outcome[r] = "incorrect_flag"
        /\ points[TeamOf(request[r].user)] = 0

\* C7: for a team whose only row on an unlocked challenge is one incorrect
\* attempt, a submission of the right flag is answered correct_flag; its
\* commit leaves exactly that incorrect row and one correct row for the
\* (challenge, team), adds exactly the score of the challenge to the points
\* of the team (which are then that score if the team had none), and sets the
\* first blood to the submitter if it was unset.
C7_RoundTripStep ==
    \A r \in Reqs :
        LET c == request[r].challenge
            u == request[r].user
            t == TeamOf(u)
            before == SolvesOf(ledger, c, t)
            after == SolvesOf(ledger', c, t)
            OneWrong == Len(before) = 1 /\ ~before[1].correct
        IN /\ ( /\ Decides(r, "FlagSubmitView")
                /\ OneWrong
                /\ is_unlocked(ledger, c, u)
                /\ plugin_check(c, request[r].flag) )
                => outcome'[r] = "correct_flag"
           /\ ( /\ Commits(r, "FlagSubmitView")
                /\ OneWrong
                /\ outcome[r] = "correct_flag" )
                => /\ Len(after) = 2
                   /\ after[1] = before[1]
                   /\ after[2].correct /\ after[2].user = u
                   /\ CorrectCount(ledger', c, t) = 1
                   /\ points'[t] = points[t] + Challenges[c].score
                   /\ points[t] = 0 => points'[t] = Challenges[c].score
                   /\ first_blood'[c] = IF first_blood[c] = None THEN u ELSE first_blood[c]

C7_WrongThenRight == [][C7_RoundTripStep]_vars

\* A team has one incorrect and then one correct row on a challenge, the
\* points of one award, and the first blood.
C7_Witness ==
    \E c \in ChallengeIds, t \in Teams :
        LET S == SolvesOf(ledger, c, t)
        IN /\ Len(S) = 2
           /\ ~S[1].correct
           /\ S[2].correct
           /\ points[t] = Challenges[c].score
           /\ first_blood[c] = S[2].user

\* C8: no step of a flag check changes the points, the first bloods or the
\* ledger (so it consumes no attempt), be the flag right or wrong; for a team
\* with a correct solve the check answers by the flag matcher alone, and for
\* a team without one it answers havent_solved_challenge (havent_solved_yet
\* in the operation table).
C8_CheckStep ==
    \A r \in Reqs :
        LET c == request[r].challenge
            u == request[r].user
            t == TeamOf(u)
        IN /\ (request[r].view = "FlagCheckView" /\ pc'[r] # pc[r])
                => /\ UNCHANGED dbVars
                   /\ txn'[r] = NoWrites
                   /\ events'[r] = <<>>
           /\ (request'[r].view = "FlagCheckView" /\ pc'[r] # pc[r])
                => /\ UNCHANGED dbVars
                   /\ txn'[r] = NoWrites
           /\ (Decides(r, "FlagCheckView") /\ HasCorrectSolve(ledger, c, t))
                => outcome'[r] =
                      IF plugin_check(c, request[r].flag) THEN "correct_flag"
                      ELSE "incorrect_flag"
           /\ (Decides(r, "FlagCheckView") /\ ~HasCorrectSolve(ledger, c, t))
                => outcome'[r] = "havent_solved_challenge"

C8_CheckFlagReadOnly == [][C8_CheckStep]_vars

\* A team that has solved a challenge checks a wrong flag.
C8_Witness ==
    \E r \in Reqs :
        /\ pc[r] = "commit"
        /\ request[r].view = "FlagCheckView"
        /\ HasCorrectSolve(ledger, request[r].challenge, TeamOf(request[r].user))
        /\ ~plugin_check(request[r].challenge, request[r].flag)
        /\ outcome[r] = "incorrect_flag"

\* Sequence s is a prefix of sequence full.
IsPrefix(s, full) == Len(s) <= Len(full) /\ \A i \in 1..Len(s) : s[i] = full[i]

SubmitLockOrder ==
    \A r \in Reqs :
        request[r].view = "FlagSubmitView"
            => /\ IsPrefix(held[r], <<"team", "user", "challenge">>)
               /\ \A l \in LockIds : locks[l] = r =>
                     \E i \in 1..Len(held[r]) : held[r][i] = l[1]

\* Some request is in flight and no step is possible.
Deadlocked == InFlight # {} /\ ~ENABLED Next

\* C9: every submission takes its row locks in the order team, user,
\* challenge; no reachable state is a deadlock; and with fair lock grants
\* every request in flight reaches its response and holds no lock afterwards.
C9_LockOrderNoDeadlock ==
    /\ [](SubmitLockOrder /\ ~Deadlocked)
    /\ \A r \in Reqs :
          (pc[r] # "idle") ~> (pc[r] = "idle" /\ \A l \in LockIds : locks[l] # r)

\* A submission of one team waits for the challenge row that a submission of
\* another team holds.
C9_Witness ==
    \E r1, r2 \in Reqs :
        /\ request[r1].view = "FlagSubmitView" /\ request[r2].view = "FlagSubmitView"
        /\ TeamOf(request[r1].user) # TeamOf(request[r2].user)
        /\ request[r1].challenge = request[r2].challenge
        /\ pc[r1] = "commit" /\ held[r1] = <<"team", "user", "challenge">>
        /\ pc[r2] = "lock_challenge" /\ held[r2] = <<"team", "user">>
        /\ locks[<<"challenge", request[r2].challenge>>] = r1

\* C10: a flag check takes no row lock, and is never kept waiting by a row
\* lock of another request.
C10_CheckTakesNoLock ==
    \A r \in Reqs :
        request[r].view = "FlagCheckView"
            => /\ held[r] = <<>>
               /\ \A l \in LockIds : locks[l] # r
               /\ (pc[r] = "lock_challenge" /\ request[r].challenge \in ChallengeIds)
                     => LockFree(<<"challenge", request[r].challenge>>)

\* The end of a submission whose handler was ended by an exception.
Aborts(r) ==
    /\ pc[r] = "rollback"
    /\ pc'[r] = "idle"
    /\ request[r].view = "FlagSubmitView"

\* C11: a failing listener does not undo a submission: when a listener fails
\* in a submission that matched (its row is written, its points are added),
\* the row, the points and the first blood of the submission are committed.
C11_ListenerStep ==
    \A r \in Reqs :
        LET c == request[r].challenge
            t == TeamOf(request[r].user)
        IN (Aborts(r) /\ txn[r].solves # <<>>)
              => /\ ledger' = ledger \o txn[r].solves
                 /\ points'[t] = points[t] + txn[r].points
                 /\ first_blood'[c] # None

C11_ListenerFailureKeepsCommit == [][C11_ListenerStep]_vars

\* C12: a SubmitFlag or CheckFlag that looks a plugin up for a challenge whose
\* flag_type or points_type is not a registered name awards nothing and its
\* lookup never ends the request in an exception leaving the handler
\* (failures of listeners set aside).
C12_UnknownTypeFailsClosed ==
    \A r \in Reqs :
        LET c == request[r].challenge
            unknown ==
                \/ flag_type[c] \notin plugins.flag
                \/ request[r].view = "FlagSubmitView"
                      /\ points_type[c] \notin plugins.points
        IN (/\ pc[r] \in {"commit", "rollback"}
            /\ c \in ChallengeIds
            /\ unknown
            /\ outcome[r] # "server_error")
              => /\ outcome[r] # "key_error"
                 /\ txn[r].points = 0

\* What is committed is whole: the points of every team are the awards of
\* the correct rows of the ledger, and the first bloods are those of the
\* ledger.
CommittedWhole ==
    /\ \A t \in Teams : points[t] = AwardSum(ledger, t, ChallengeIds)
    /\ FirstBloodIsFirstCorrect

\* The commit of a submission makes its row, its points and its first blood
\* visible in one step.
CommitsWhole(r) ==
    LET c == request[r].challenge
        t == TeamOf(request[r].user)
    IN /\ ledger' = ledger \o txn[r].solves
       /\ points'[t] = points[t] + txn[r].points
       /\ txn[r].first_blood # None => first_blood'[c] = txn[r].first_blood

\* C13: a submission is all or nothing: when it fails after taking its locks,
\* the row it wrote, the points it added and the first blood it set are
\* dropped together; when it commits they become visible in one step; and
\* the committed state never shows a part of them.
C13_AtomicStep ==
    \A r \in Reqs :
        /\ Aborts(r) => UNCHANGED dbVars
        /\ Commits(r, "FlagSubmitView") => CommitsWhole(r)

C13_AllOrNothing == [](CommittedWhole) /\ [][C13_AtomicStep]_vars

\* A submission of the right flag wrote its row, its points and the first
\* blood, and then failed.
C13_Witness ==
    \E r \in Reqs :
        /\ pc[r] = "rollback"
        /\ request[r].view = "FlagSubmitView"
        /\ Len(txn[r].solves) = 1
        /\ txn[r].points > 0
        /\ txn[r].first_blood = request[r].user

\* C14: the attempt limit is checked before the flag is matched: a submission
\* of a team with more rows than the limit of the challenge is answered
\* attempt_limit_reached, writes nothing and sends only the rejection, and
\* response, writes and signals are the same for every flag text.
C14_LimitFirstStep ==
    \A r \in Reqs :
        LET c == request[r].challenge
            u == request[r].user
            t == TeamOf(u)
            limit == attempt_limit[c]
            Answer(f) == SubmitOutcome(ledger, c, u, f, limit)
        IN /\ ( /\ Decides(r, "FlagSubmitView")
                /\ limit >= 1
                /\ AttemptCount(ledger, c, t) > limit
                /\ ~SubmitGateClosed(ledger, c, u) )
                => /\ outcome'[r] = "attempt_limit_reached"
                   /\ txn'[r] = NoWrites
                   /\ events'[r] = <<flag_reject("attempt_limit_reached")>>
                   /\ \A f \in {"f1", "f2"} :
                         /\ Answer(f) = outcome'[r]
                         /\ SubmitWrites(Answer(f), c, u, f, first_blood[c]) = NoWrites
                         /\ SubmitSignals(Answer(f)) = events'[r]
           /\ ( /\ Commits(r, "FlagSubmitView")
                /\ outcome[r] = "attempt_limit_reached" )
                => UNCHANGED dbVars

C14_LimitBeforeMatching == [][C14_LimitFirstStep]_vars

\* The right flag, submitted past the limit, is answered
\* attempt_limit_reached.
C14_Witness ==
    \E r \in Reqs :
        /\ pc[r] = "commit"
        /\ request[r].view = "FlagSubmitView"
        /\ RightFlag(r)
        /\ outcome[r] = "attempt_limit_reached"
        /\ events[r] = <<flag_reject("attempt_limit_reached")>>

\* Request r has sent flag_score.
ScoreSent(r) == \E i \in 1..Len(events[r]) : events[r][i] = flag_score

\* C15: signals are sent after the commit: whenever a listener has received
\* the flag_score of a submission, the correct row of the submission is in
\* the committed ledger and the points of the team include its award.
C15_EventsAfterCommit ==
    \A r \in Reqs :
        ScoreSent(r)
            => /\ HasCorrectSolve(ledger, request[r].challenge, TeamOf(request[r].user))
               /\ points[TeamOf(request[r].user)] >= Challenges[request[r].challenge].score

\* C16: the signals of a submission that has run to its response: flag_submit
\* and then flag_reject(incorrect_flag) for a mismatch, flag_submit and then
\* flag_score for a match, flag_reject(attempt_limit_reached) alone for the
\* attempt limit, and none for flag_submission_disabled, a bad request and
\* already_solved_challenge.
C16_EventOrder ==
    \A r \in Reqs :
        (request[r].view = "FlagSubmitView" /\ pc[r] \in {"commit", "respond"})
            => /\ outcome[r] = "incorrect_flag"
                    => events[r] = <<flag_submit, flag_reject("incorrect_flag")>>
               /\ outcome[r] = "correct_flag"
                    => events[r] = <<flag_submit, flag_score>>
               /\ outcome[r] = "attempt_limit_reached"
                    => events[r] = <<flag_reject("attempt_limit_reached")>>
               /\ outcome[r] \in {"flag_submission_disabled", "bad_request",
                                  "already_solved_challenge"}
                    => events[r] = <<>>
               /\ outcome[r] \in {"incorrect_flag", "correct_flag",
                                  "attempt_limit_reached", "flag_submission_disabled",
                                  "bad_request", "already_solved_challenge"}

\* One submission was matched and rejected, with its two signals, while
\* another was turned away at the gate without any.
C16_Witness ==
    \E r1, r2 \in Reqs :
        /\ pc[r1] = "commit" /\ request[r1].view = "FlagSubmitView"
        /\ outcome[r1] = "incorrect_flag"
        /\ events[r1] = <<flag_submit, flag_reject("incorrect_flag")>>
        /\ pc[r2] = "commit" /\ request[r2].view = "FlagSubmitView"
        /\ outcome[r2] = "already_solved_challenge"
        /\ events[r2] = <<>>

\* C17: a submission without a flag or without a challenge id is answered
\* before a transaction is opened, and so is a submission answered
\* flag_submission_disabled: neither holds a row lock, has written anything
\* or has sent a signal.
C17_RejectedBeforeLocks ==
    \A r \in Reqs :
        (/\ request[r].view = "FlagSubmitView"
         /\ outcome[r] \in {"bad_request", "flag_submission_disabled"})
            => /\ held[r] = <<>>
               /\ \A l \in LockIds : locks[l] # r
               /\ pc[r] = "respond"
               /\ txn[r] = NoWrites
               /\ events[r] = <<>>

\* The rows of (challenge, team) stay within the attempt limit plus one.
WithinLimit ==
    \A c \in ChallengeIds, t \in Teams :
        attempt_limit[c] >= 1 => AttemptCount(ledger, c, t) <= attempt_limit[c] + 1

\* Request r was matched: its flag went to the flag plugin.
Matched(r) == outcome[r] \in {"incorrect_flag", "correct_flag"}

\* C19: the ledger only grows at its end: no step changes or removes a row;
\* a row is added only by the commit of a submission that was matched, which
\* adds exactly one; no other commit, no rollback and no step of a flag check
\* adds any; and on a challenge of attempt limit L >= 1 no (challenge, team)
\* ever has more than L + 1 rows.
C19_AppendStep ==
    /\ IsPrefix(ledger, ledger')
    /\ ledger' # ledger =>
          \E r \in Reqs :
              /\ Commits(r, "FlagSubmitView")
              /\ Matched(r)
              /\ ledger' = Append(ledger, txn[r].solves[1])
    /\ \A r \in Reqs :
          (Commits(r, "FlagSubmitView") /\ Matched(r)) => Len(ledger') = Len(ledger) + 1

C19_LedgerAppendOnly == [](WithinLimit) /\ [][C19_AppendStep]_vars

\* A team has two rows on a challenge of attempt limit 1, and its next
\* submission was turned away.
C19_Witness ==
    \E r \in Reqs :
        LET c == request[r].challenge
            t == TeamOf(request[r].user)
        IN /\ pc[r] = "commit"
           /\ request[r].view = "FlagSubmitView"
           /\ c \in ChallengeIds
           /\ attempt_limit[c] = 1
           /\ AttemptCount(ledger, c, t) = 2
           /\ Len(ledger) = 2
           /\ outcome[r] = "attempt_limit_reached"

\* C20: a challenge whose attempt_limit is absent or 0 has no limit: no
\* submission for it is answered attempt_limit_reached, however many rows
\* the team has; it is answered at the gate or matched.
C20_NoLimitStep ==
    \A r \in Reqs :
        LET c == request[r].challenge
            u == request[r].user
        IN (Decides(r, "FlagSubmitView") /\ attempt_limit[c] = 0)
              => /\ outcome'[r] # "attempt_limit_reached"
                 /\ ~SubmitGateClosed(ledger, c, u)
                       => /\ outcome'[r] \in {"incorrect_flag", "correct_flag"}
                          /\ Len(txn'[r].solves) = 1

C20_ZeroMeansNoLimit ==
    /\ [][C20_NoLimitStep]_vars
    /\ [](\A r \in Reqs :
            (request[r].view = "FlagSubmitView"
                /\ request[r].challenge \in ChallengeIds
                /\ attempt_limit[request[r].challenge] = 0)
                    => outcome[r] # "attempt_limit_reached")

\* The third wrong flag of a team on a challenge without a limit was matched.
C20_Witness ==
    \E r \in Reqs :
        LET c == request[r].challenge
            t == TeamOf(request[r].user)
        IN /\ pc[r] = "commit"
           /\ request[r].view = "FlagSubmitView"
           /\ c \in ChallengeIds
           /\ attempt_limit[c] = 0
           /\ AttemptCount(ledger, c, t) = 2
           /\ outcome[r] = "incorrect_flag"

\* C18: for a user with a team, the listing has, once list() has gone over
\* it, one row for every challenge, and its `unlocked` is is_unlocked of the
\* challenge for the user: auto_unlock, or every challenge of unlocked_by
\* solved by the team and the release time reached.
C18_BulkUnlockedIsUnlocked ==
    listing.pc = "listed"
        => \A c \in DOMAIN catalog :
              {row.unlocked : row \in {x \in listing.challenges : x.id = c}}
                 = {Unlocked(catalog[c], solved_challenges(ledger, TeamOf(listing.user)))}
====
